---- MODULE Spec2Model ----
(***************************************************************************)
(* ariya: an expression compiler.  main() reads one line, lexes it         *)
(* (parser::parse_infix), converts it to postfix (parser::shunting_yard),  *)
(* evaluates it (parser::eval<double>) and then generates IR               *)
(* (llir::compile).                                                        *)
(*                                                                         *)
(* The input line is represented by the sequence of matches that the       *)
(* std::sregex_iterator of parse_infix walks over: each match is the       *)
(* number of the capture group that matched (the Token::Type values) and   *)
(* the matched text.  Whitespace matches emit no token, so a whitespace    *)
(* match between two other matches may be left out without changing the    *)
(* tokens.  Doubles are tracked exactly while they are integers of         *)
(* magnitude at most MaxExact; every other double is Unknown.              *)
(***************************************************************************)
EXTENDS Integers, Sequences, FiniteSets, TLC

(***************************************************************************)
(* Bounds of the model.                                                    *)
(***************************************************************************)
\* longest input over the whole alphabet
MaxLen == 2
\* longest input over the structural alphabet (values, +, brackets, commas, calls)
MaxStructLen == 5
\* largest magnitude of a double that is tracked exactly
MaxExact == 4096

(***************************************************************************)
(* Doubles.                                                                *)
(***************************************************************************)
Known(n) == <<n>>
Unknown == <<>>
IsKnown(v) == Len(v) = 1
Num(v) == v[1]
Exact(n) == IF n >= -MaxExact /\ n <= MaxExact THEN Known(n) ELSE Unknown

(***************************************************************************)
(* parser::Operator                                                        *)
(***************************************************************************)
OperatorTypes ==
  {"Noop", "Sep", "And", "Or", "Xor", "Rsh", "Lsh", "Add", "Sub", "Mul",
   "Div", "Rem", "Exp", "Not", "Pos", "Neg", "Lbr", "Rbr", "Fn"}

\* the (precedence, arity) pair that op_id packs into each enumerator
op_id ==
  [op \in OperatorTypes |->
     CASE op = "Noop" -> <<0, 0>>
       [] op = "Sep" -> <<1, 2>>
       [] op \in {"And", "Or", "Xor"} -> <<2, 2>>
       [] op \in {"Rsh", "Lsh"} -> <<3, 2>>
       [] op \in {"Add", "Sub"} -> <<4, 2>>
       [] op \in {"Mul", "Div", "Rem"} -> <<5, 2>>
       [] op = "Exp" -> <<6, 2>>
       [] op \in {"Not", "Pos", "Neg"} -> <<7, 1>>
       [] op \in {"Lbr", "Rbr", "Fn"} -> <<8, 0>>]

precedence(op) == op_id[op][1]

arity(op) == op_id[op][2]

sentinel(op) == op = "Lbr" \/ op = "Fn"

(***************************************************************************)
(* parser::Function                                                        *)
(***************************************************************************)
FunctionTypes ==
  {"Pass", "Abs", "Acos", "Acosh", "Asin", "Asinh", "Atan", "Atanh", "Atan2",
   "Cbrt", "Ceil", "Cos", "Cosh", "Exp", "Floor", "Round", "Hypot", "Log",
   "Log2", "Log10", "Max", "Min", "Pow", "Sin", "Sinh", "Sqrt", "Tan",
   "Tanh", "Trunc"}

\* the arity that fn_id packs into each enumerator, as Function::arity reads it
function_arity(fn) ==
  CASE fn \in {"Atan2", "Pow"} -> 2
    [] fn \in {"Hypot", "Max", "Min"} -> -1
    [] OTHER -> 1

(***************************************************************************)
(* The descriptor tables.                                                  *)
(***************************************************************************)
token_to_operator ==
  (","  :> "Sep") @@ ("&"  :> "And") @@ ("|"  :> "Or")  @@ ("^"  :> "Xor") @@
  (">>" :> "Rsh") @@ ("<<" :> "Lsh") @@ ("+"  :> "Add") @@ ("-"  :> "Sub") @@
  ("*"  :> "Mul") @@ ("/"  :> "Div") @@ ("%"  :> "Rem") @@ ("**" :> "Exp") @@
  ("~"  :> "Not") @@ ("("  :> "Lbr") @@ (")"  :> "Rbr")

operator_as_unary == ("Add" :> "Pos") @@ ("Sub" :> "Neg")

token_to_function ==
  ("abs" :> "Abs") @@ ("acos" :> "Acos") @@ ("acosh" :> "Acosh") @@
  ("asin" :> "Asin") @@ ("asinh" :> "Asinh") @@ ("atan" :> "Atan") @@
  ("atanh" :> "Atanh") @@ ("atan2" :> "Atan2") @@ ("cbrt" :> "Cbrt") @@
  ("ceil" :> "Ceil") @@ ("cos" :> "Cos") @@ ("cosh" :> "Cosh") @@
  ("exp" :> "Exp") @@ ("floor" :> "Floor") @@ ("round" :> "Round") @@
  ("hypot" :> "Hypot") @@ ("log" :> "Log") @@ ("log2" :> "Log2") @@
  ("log10" :> "Log10") @@ ("max" :> "Max") @@ ("min" :> "Min") @@
  ("pow" :> "Pow") @@ ("sin" :> "Sin") @@ ("sinh" :> "Sinh") @@
  ("sqrt" :> "Sqrt") @@ ("tan" :> "Tan") @@ ("tanh" :> "Tanh") @@
  ("trunc" :> "Trunc")

\* pi and e are no integers: the model does not track their digits
const_to_value == ("pi" :> Unknown) @@ ("e" :> Unknown)

(***************************************************************************)
(* parser::Token                                                           *)
(***************************************************************************)
ValueToken(v) ==
  [type |-> "Value", value |-> v, operator |-> "Noop", function |-> "Pass", argc |-> 0]

OperatorToken(op) ==
  [type |-> "Operator", value |-> Known(0), operator |-> op, function |-> "Pass", argc |-> 0]

FunctionToken(fn) ==
  [type |-> "Function", value |-> Known(0), operator |-> "Noop", function |-> fn, argc |-> 0]

is_value(t) == t.type = "Value"

is_operator(t) == t.type = "Operator"

is_function(t) == t.type = "Function"

is_sentinel(t) == is_operator(t) /\ sentinel(t.operator)

function_init_argc(t) ==
  IF is_function(t) /\ t.argc = 0 THEN [t EXCEPT !.argc = t.argc + 1] ELSE t

\* mutant of function_increase_argc: the counter is only initialised
function_increase_argc_once(t) ==
  IF is_function(t) /\ t.argc = 0 THEN [t EXCEPT !.argc = t.argc + 1] ELSE t

function_increase_argc(t) ==
  IF is_function(t) THEN [t EXCEPT !.argc = t.argc + 1] ELSE t

function_argc(t) == IF is_function(t) THEN t.argc ELSE 0

(***************************************************************************)
(* The input line, as the matches of token_rx in the order the iterator    *)
(* yields them.  group is the index of the capture group that matched.     *)
(***************************************************************************)
Match(group, key) == [group |-> group, key |-> key]

FunctionKeys == {"sin", "pow", "max"}

\* std::stod on the numeric literals of the model; a literal outside the
\* domain ("1e999") is out of the range of double and makes stod throw
stod ==
  ("1" :> Known(1)) @@ ("2" :> Known(2)) @@ ("3" :> Known(3)) @@
  ("0.000" :> Known(0)) @@ ("1.000" :> Known(1)) @@ ("2.000" :> Known(2)) @@
  ("3.000" :> Known(3)) @@ ("3.142" :> Unknown)

\* std::tolower on the texts the fourth alternative (e|pi) matches under
\* std::regex::icase
tolower == ("pi" :> "pi") @@ ("PI" :> "pi") @@ ("e" :> "e") @@ ("E" :> "e")

\* token_rx is compiled with std::regex::icase: the third alternative also
\* matches a function name written in capitals
Alphabet ==
  {Match(1, k) : k \in {"1", "2", "1e999"}} \cup
  {Match(2, k) : k \in DOMAIN token_to_operator} \cup
  {Match(3, k) : k \in FunctionKeys \cup {"SIN"}} \cup
  {Match(4, "pi"), Match(4, "PI"), Match(5, " "), Match(6, "?")}

StructAlphabet ==
  {Match(1, "1"), Match(2, "+"), Match(2, "("), Match(2, ")"), Match(2, ","),
   Match(3, "max"), Match(3, "sin")}

\* the third alternative of token_rx ends in the lookahead (?=\s*\():
\* a function name matches only when "(" follows, after optional whitespace.
\* A function name that is still waiting for its "(" at the end of w
Pending(w) ==
  \/ Len(w) >= 1 /\ w[Len(w)].group = 3
  \/ Len(w) >= 2 /\ w[Len(w)].group = 5 /\ w[Len(w) - 1].group = 3

\* the match a may follow the matches w
Lookahead(w, a) ==
  /\ Pending(w) => a = Match(2, "(") \/ (a.group = 5 /\ w[Len(w)].group = 3)
  /\ a.group = 5 => (w = <<>> \/ w[Len(w)].group # 5)

\* the sequences of n matches over A that token_rx can produce, followed by
\* more matches
RECURSIVE Prefixes(_, _)
Prefixes(A, n) ==
  IF n = 0 THEN {<<>>}
  ELSE {x \in {Append(w, a) : w \in Prefixes(A, n - 1), a \in A} :
          Lookahead(SubSeq(x, 1, n - 1), x[n])}

\* the lines of at most n matches over A
RECURSIVE Words(_, _)
Words(A, n) ==
  {w \in Prefixes(A, n) : ~Pending(w)} \cup (IF n = 0 THEN {} ELSE Words(A, n - 1))

V(k) == Match(1, k)
O(k) == Match(2, k)
F(k) == Match(3, k)

BinaryKeys == {"&", "|", "^", ">>", "<<", "+", "-", "*", "/", "%", "**"}

\* x a y b z
Infix5(a, b) == <<V("1"), O(a), V("2"), O(b), V("3")>>

\* (x a y) b z
Paren7(a, b) == <<O("("), V("1"), O(a), V("2"), O(")"), O(b), V("3")>>

UnaryKeys == {"+", "-", "~"}

\* u x b y
Prefix4(u, b) == <<O(u), V("1"), O(b), V("2")>>

\* x b u y
Inner4(b, u) == <<V("1"), O(b), O(u), V("2")>>

TemplateInputs ==
  {Infix5(a, b) : a \in BinaryKeys, b \in BinaryKeys} \cup
  {Paren7(a, b) : a \in BinaryKeys, b \in BinaryKeys} \cup
  {Prefix4(u, b) : u \in UnaryKeys, b \in BinaryKeys} \cup
  {Inner4(b, u) : u \in UnaryKeys, b \in BinaryKeys} \cup
  {<<O(u), O(u), V("1")>> : u \in UnaryKeys} \cup
  {<<V("2"), O("**"), V("3"), O("**"), V("2")>>,
   <<O("-"), O("("), V("2"), O("+"), V("3"), O(")")>>,
   <<F("max"), O("("), O("("), V("1"), O(","), V("2"), O(")"), O(")")>>,
   <<F("sin"), O("("), V("1"), O(","), V("2"), O(")")>>,
   <<F("pow"), O("("), V("2"), O(","), V("3"), O(")")>>,
   <<F("pow"), O("("), V("2"), O(","), V("3"), O(")"), O("**"), V("2")>>,
   <<F("max"), O("("), V("1"), O(","), V("2"), O(","), V("3"), O(")")>>,
   <<F("ceil"), O("("), O("-"), V("1"), O(")")>>,
   <<F("max"), O("("), F("sin"), O("("), V("1"), O(")"), O(")")>>,
   <<V("1"), O("+"), F("pow"), O("("), V("2"), O(")")>>,
   <<V("1"), Match(5, " "), V("2"), Match(5, " "), O("+")>>,
   <<V("2"), O("("), V("3"), O("+"), O(")")>>}

Inputs ==
  Words(Alphabet, MaxLen) \cup Words(StructAlphabet, MaxStructLen) \cup TemplateInputs

(***************************************************************************)
(* State.                                                                  *)
(***************************************************************************)
VARIABLES
  expr,            \* main: the line read, as its matches
  iter,            \* parse_infix: the regex iterator (index of the next match)
  infix,           \* main: the tokens of the lexer
  postfix,         \* main: the postfix sequence (drained by eval<double>)
  postfix_ll,      \* main: the copy of postfix handed to llir::compile
  operator_cache,  \* shunting_yard: operator stack, top last
  function_cache,  \* shunting_yard: function stack, top last
  result,          \* eval: result stack, top last
  out,             \* main: the interpreter's result
  calls,           \* eval: the handler invocations made so far
  stdout,          \* the lines printed so far, each with the function that printed it
  pc,              \* the function main is in
  exit_code,       \* the process exit status (-1 while running)
  result_ll,       \* eval<llvm::Value*>: result stack, top last
  out_ll,          \* compile: the IR value of the result
  calls_ll,        \* eval<llvm::Value*>: the handler invocations made so far
  entry,           \* llir: the instructions of the entry block of main
  functions,       \* llir: the functions of the module, in creation order
  verified,        \* llir: what verifyModule found ("" before wrap runs)
  written,         \* llir: main.ll has been written
  depths,          \* eval<double>: result.size() after every pass of the loop
  depths_ll        \* eval<llvm::Value*>: result.size() after every pass of the loop

\* the variables of llir::compile
llir_vars == <<result_ll, out_ll, calls_ll, entry, functions, verified, written>>

vars ==
  <<expr, iter, infix, postfix, postfix_ll, operator_cache, function_cache,
    result, out, calls, stdout, pc, exit_code, llir_vars, depths, depths_ll>>

Init ==
  /\ expr \in Inputs
  /\ iter = 1
  /\ infix = <<>>
  /\ postfix = <<>>
  /\ postfix_ll = <<>>
  /\ operator_cache = <<>>
  /\ function_cache = <<>>
  /\ result = <<>>
  /\ out = Unknown
  /\ calls = <<>>
  /\ stdout = <<>>
  /\ pc = "parse_infix"
  /\ exit_code = -1
  /\ result_ll = <<>>
  /\ out_ll = [kind |-> "none", v |-> Unknown, id |-> 0]
  /\ calls_ll = <<>>
  /\ entry = <<>>
  /\ functions = <<>>
  /\ verified = ""
  /\ written = FALSE
  /\ depths = <<>>
  /\ depths_ll = <<>>

Top(s) == s[Len(s)]

Pop(s) == SubSeq(s, 1, Len(s) - 1)

\* main returns 1 after the function fn printed msg and returned false
Fail(fn, msg) ==
  /\ stdout' = Append(stdout, <<fn, msg>>)
  /\ pc' = "exit"
  /\ exit_code' = 1

\* an exception nobody catches (std::out_of_range of stod or of map::at):
\* std::terminate aborts the process
Throw ==
  /\ pc' = "exit"
  /\ exit_code' = 134

(***************************************************************************)
(* parser::parse_infix, one action per case of the switch                  *)
(***************************************************************************)
\* mutant of classify_operator: a closing parenthesis does not count as an
\* operand before + or -
classify_operator_no_rbr(key) ==
  LET operator_ == token_to_operator[key]
      unary ==
        IF /\ infix = <<>> \/ ~is_value(Top(infix))
           /\ operator_ \in DOMAIN operator_as_unary
        THEN operator_as_unary[operator_]
        ELSE operator_
  IN IF infix # <<>> /\ is_function(Top(infix)) THEN "Fn" ELSE unary

\* mutant of classify: a "(" after a function name stays a parenthesis
classify_no_marker(back, key) ==
  LET operator_ == token_to_operator[key]
  IN IF /\ \/ back = <<>>
           \/ ~is_value(Top(back)) /\ Top(back).operator # "Rbr"
        /\ operator_ \in DOMAIN operator_as_unary
     THEN operator_as_unary[operator_]
     ELSE operator_

\* the operator kind the lexer gives to the symbol key when the tokens
\* pushed so far are back
classify(back, key) ==
  LET operator_ == token_to_operator[key]
      unary ==
        IF /\ \/ back = <<>>
              \/ ~is_value(Top(back)) /\ Top(back).operator # "Rbr"
           /\ operator_ \in DOMAIN operator_as_unary
        THEN operator_as_unary[operator_]
        ELSE operator_
  IN IF back # <<>> /\ is_function(Top(back)) THEN "Fn" ELSE unary

\* the operator kind the lexer gives to the symbol key
classify_operator(key) == classify(infix, key)

LexStep(group) ==
  /\ pc = "parse_infix"
  /\ iter <= Len(expr)
  /\ expr[iter].group = group

parse_infix_Value ==
  /\ UNCHANGED llir_vars
  /\ LexStep(1)
  /\ IF expr[iter].key \in DOMAIN stod
     THEN /\ infix' = Append(infix, ValueToken(stod[expr[iter].key]))
          /\ iter' = iter + 1
          /\ UNCHANGED <<pc, exit_code>>
     ELSE Throw /\ UNCHANGED <<infix, iter>>
  /\ UNCHANGED <<expr, postfix, postfix_ll, operator_cache, function_cache,
                 result, out, calls, stdout>>
  /\ UNCHANGED <<depths, depths_ll>>

parse_infix_Operator ==
  /\ UNCHANGED llir_vars
  /\ LexStep(2)
  /\ infix' = Append(infix, OperatorToken(classify_operator(expr[iter].key)))
  /\ iter' = iter + 1
  /\ UNCHANGED <<expr, postfix, postfix_ll, operator_cache, function_cache,
                 result, out, calls, stdout, pc, exit_code>>
  /\ UNCHANGED <<depths, depths_ll>>

parse_infix_Function ==
  /\ UNCHANGED llir_vars
  /\ LexStep(3)
  /\ IF expr[iter].key \in DOMAIN token_to_function
     THEN /\ infix' = Append(infix, FunctionToken(token_to_function[expr[iter].key]))
          /\ iter' = iter + 1
          /\ UNCHANGED <<pc, exit_code>>
     ELSE Throw /\ UNCHANGED <<infix, iter>>
  /\ UNCHANGED <<expr, postfix, postfix_ll, operator_cache, function_cache,
                 result, out, calls, stdout>>
  /\ UNCHANGED <<depths, depths_ll>>

parse_infix_Constant ==
  /\ UNCHANGED llir_vars
  /\ LexStep(4)
  /\ infix' = Append(infix, ValueToken(const_to_value[tolower[expr[iter].key]]))
  /\ iter' = iter + 1
  /\ UNCHANGED <<expr, postfix, postfix_ll, operator_cache, function_cache,
                 result, out, calls, stdout, pc, exit_code>>
  /\ UNCHANGED <<depths, depths_ll>>

parse_infix_Whitespace ==
  /\ UNCHANGED llir_vars
  /\ LexStep(5)
  /\ iter' = iter + 1
  /\ UNCHANGED <<expr, infix, postfix, postfix_ll, operator_cache, function_cache,
                 result, out, calls, stdout, pc, exit_code>>
  /\ UNCHANGED <<depths, depths_ll>>

parse_infix_Invalid ==
  /\ UNCHANGED llir_vars
  /\ LexStep(6)
  /\ Fail("parse_infix", "Invalid character")
  /\ UNCHANGED <<expr, iter, infix, postfix, postfix_ll, operator_cache,
                 function_cache, result, out, calls>>
  /\ UNCHANGED <<depths, depths_ll>>

parse_infix_return ==
  /\ UNCHANGED llir_vars
  /\ pc = "parse_infix"
  /\ iter > Len(expr)
  /\ pc' = "shunting_yard"
  /\ UNCHANGED <<expr, iter, infix, postfix, postfix_ll, operator_cache,
                 function_cache, result, out, calls, stdout, exit_code>>
  /\ UNCHANGED <<depths, depths_ll>>

(***************************************************************************)
(* parser::Token::to_string and the text parse_infix prints in debug mode  *)
(***************************************************************************)
\* invert_map(token_to_operator) with the three entries added to it
operator_to_token ==
  [op \in OperatorTypes \ {"Noop"} |->
     CASE op = "Pos" -> "+:"
       [] op = "Neg" -> "-:"
       [] op = "Fn" -> ":("
       [] OTHER -> CHOOSE k \in DOMAIN token_to_operator : token_to_operator[k] = op]

\* invert_map(token_to_function)
function_to_token ==
  [fn \in FunctionTypes \ {"Pass"} |->
     CHOOSE k \in DOMAIN token_to_function : token_to_function[k] = fn]

\* sprintf(buf, "%.3lf", value) for the values the lexer of the model
\* produces; the untracked value is pi
sprintf(v) ==
  IF ~IsKnown(v) THEN "3.142"
  ELSE CASE Num(v) = 0 -> "0.000"
         [] Num(v) = 1 -> "1.000"
         [] Num(v) = 2 -> "2.000"
         [] Num(v) = 3 -> "3.000"

to_string(t) ==
  IF is_value(t) THEN sprintf(t.value)
  ELSE IF is_operator(t)
  THEN (IF t.operator \in DOMAIN operator_to_token THEN operator_to_token[t.operator] ELSE "")
  ELSE IF t.function \in DOMAIN function_to_token THEN function_to_token[t.function]
  ELSE ""

\* for (auto t : infix) printf("%s ", t->to_string().c_str()): the words of
\* the line printed, which a blank follows each
rendered(ts) == [i \in 1..Len(ts) |-> to_string(ts[i])]

\* the matches of token_rx on the word w of a rendered line, of which the
\* word after it is next ("" at the end): up to the first invalid character
token_rx(w, next) ==
  IF w \in {"0.000", "1.000", "2.000", "3.000", "3.142"} THEN <<Match(1, w)>>
  ELSE IF w \in DOMAIN token_to_operator THEN <<Match(2, w)>>
  ELSE IF w \in {"+:", "-:"} THEN <<Match(2, IF w = "+:" THEN "+" ELSE "-"), Match(6, ":")>>
  ELSE IF w = ":(" THEN <<Match(6, ":"), Match(2, "(")>>
  ELSE IF w \in DOMAIN token_to_function /\ next = "(" THEN <<Match(3, w)>>
  ELSE <<Match(6, w)>>

\* the matches of token_rx on the rendered line ws
RECURSIVE matches(_, _)
matches(ws, i) ==
  IF i > Len(ws) THEN <<>>
  ELSE token_rx(ws[i], IF i < Len(ws) THEN ws[i + 1] ELSE "")
       \o <<Match(5, " ")>> \o matches(ws, i + 1)

\* parse_infix as a function of the matches: the tokens pushed, and whether
\* it returned true
RECURSIVE lex(_, _, _)
lex(ms, i, back) ==
  IF i > Len(ms) THEN [ok |-> TRUE, infix |-> back]
  ELSE LET key == ms[i].key
           group == ms[i].group
       IN IF group = 1 /\ key \in DOMAIN stod
          THEN lex(ms, i + 1, Append(back, ValueToken(stod[key])))
          ELSE IF group = 2
          THEN lex(ms, i + 1, Append(back, OperatorToken(classify(back, key))))
          ELSE IF group = 3 /\ key \in DOMAIN token_to_function
          THEN lex(ms, i + 1, Append(back, FunctionToken(token_to_function[key])))
          ELSE IF group = 4
          THEN lex(ms, i + 1, Append(back, ValueToken(const_to_value[tolower[key]])))
          ELSE IF group = 5 THEN lex(ms, i + 1, back)
          ELSE [ok |-> FALSE, infix |-> back]

(***************************************************************************)
(* parser::shunting_yard, one action per branch of the loop body           *)
(***************************************************************************)
\* if (!function_cache.empty()) function_cache.top()->function_init_argc();
init_top_argc(fc) ==
  IF fc # <<>> THEN [fc EXCEPT ![Len(fc)] = function_init_argc(fc[Len(fc)])] ELSE fc

\* function_cache.top()->function_increase_argc();
increase_top_argc(fc) ==
  [fc EXCEPT ![Len(fc)] = function_increase_argc(fc[Len(fc)])]

SyStep ==
  /\ pc = "shunting_yard"
  /\ infix # <<>>

shunting_yard_Value ==
  /\ UNCHANGED llir_vars
  /\ SyStep
  /\ is_value(Head(infix))
  /\ infix' = Tail(infix)
  /\ function_cache' = init_top_argc(function_cache)
  /\ postfix' = Append(postfix, Head(infix))
  /\ UNCHANGED <<expr, iter, postfix_ll, operator_cache, result, out, calls,
                 stdout, pc, exit_code>>
  /\ UNCHANGED <<depths, depths_ll>>

shunting_yard_Function ==
  /\ UNCHANGED llir_vars
  /\ SyStep
  /\ is_function(Head(infix))
  /\ infix' = Tail(infix)
  /\ function_cache' = Append(init_top_argc(function_cache), Head(infix))
  /\ UNCHANGED <<expr, iter, postfix, postfix_ll, operator_cache, result, out,
                 calls, stdout, pc, exit_code>>
  /\ UNCHANGED <<depths, depths_ll>>

shunting_yard_Sentinel ==
  /\ UNCHANGED llir_vars
  /\ SyStep
  /\ is_sentinel(Head(infix))
  /\ infix' = Tail(infix)
  /\ operator_cache' = Append(operator_cache, Head(infix))
  /\ UNCHANGED <<expr, iter, postfix, postfix_ll, function_cache, result, out,
                 calls, stdout, pc, exit_code>>
  /\ UNCHANGED <<depths, depths_ll>>

\* the while (true) loop of the Rbr branch, up to the pop of a sentinel or
\* the exhaustion of the stack; found is the sentinel popped, or "none"
RECURSIVE rbr_loop(_, _)
rbr_loop(oc, pf) ==
  IF oc = <<>> THEN [found |-> "none", oc |-> oc, pf |-> pf]
  ELSE LET op == Top(oc)
       IN IF op.operator = "Fn" THEN [found |-> "Fn", oc |-> Pop(oc), pf |-> pf]
          ELSE IF op.operator = "Lbr" THEN [found |-> "Lbr", oc |-> Pop(oc), pf |-> pf]
          ELSE rbr_loop(Pop(oc), Append(pf, op))

\* mutant of close_call: the argument count is not appended
close_call_no_count(fn) == <<fn>>

\* the tokens the Fn branch appends: the function and its argument count
close_call(fn) == <<fn, ValueToken(Known(function_argc(fn)))>>

shunting_yard_Rbr ==
  /\ UNCHANGED llir_vars
  /\ SyStep
  /\ is_operator(Head(infix)) /\ Head(infix).operator = "Rbr"
  /\ infix' = Tail(infix)
  /\ LET l == rbr_loop(operator_cache, postfix)
     IN /\ operator_cache' = l.oc
        /\ IF l.found = "none"
           THEN /\ Fail("shunting_yard", "Parentheses are mismatched")
                /\ postfix' = l.pf
                /\ UNCHANGED function_cache
           ELSE IF l.found = "Lbr"
           THEN /\ postfix' = l.pf
                /\ UNCHANGED <<function_cache, stdout, pc, exit_code>>
           ELSE IF function_cache # <<>>
           THEN /\ postfix' = l.pf \o close_call(Top(function_cache))
                /\ function_cache' = Pop(function_cache)
                /\ UNCHANGED <<stdout, pc, exit_code>>
           ELSE \* top() of an empty stack is undefined: the process dies, or
                \* goes on with whatever token the read produced
                \E ub \in {"crash", "garbage"} :
                  /\ function_cache' = <<>>
                  /\ IF ub = "crash"
                     THEN /\ pc' = "exit" /\ exit_code' = 139
                          /\ postfix' = l.pf
                     ELSE /\ \E fn \in FunctionKeys, n \in 0..1 :
                               postfix' = l.pf \o close_call(
                                 [FunctionToken(token_to_function[fn]) EXCEPT !.argc = n])
                          /\ UNCHANGED <<pc, exit_code>>
                  /\ UNCHANGED stdout
  /\ UNCHANGED <<expr, iter, postfix_ll, result, out, calls>>
  /\ UNCHANGED <<depths, depths_ll>>

\* mutant of loop_condition: the sentinel test is left to the precedences
loop_condition_no_sentinel(oc) == oc # <<>>

\* while (!operator_cache.empty() && !operator_cache.top()->is_sentinel())
loop_condition(oc) == oc # <<>> /\ ~is_sentinel(Top(oc))

\* mutant of loop_break: the comparison is turned around
loop_break_reversed(token, op) ==
  precedence(token.operator) < precedence(op.operator)

\* mutant of loop_break: equal precedence does not pop (right-associative)
loop_break_right_assoc(token, op) ==
  precedence(token.operator) >= precedence(op.operator)

\* if (token->operator_precedence() > op->operator_precedence()) break;
loop_break(token, op) ==
  precedence(token.operator) > precedence(op.operator)

\* the precedence loop of an incoming operator token
RECURSIVE precedence_loop(_, _, _)
precedence_loop(token, oc, pf) ==
  IF loop_condition(oc)
  THEN IF loop_break(token, Top(oc))
       THEN [oc |-> oc, pf |-> pf]
       ELSE precedence_loop(token, Pop(oc), Append(pf, Top(oc)))
  ELSE [oc |-> oc, pf |-> pf]

\* mutant of pop_operators: unary operators go through the loop as well
pop_operators_unary_too(token, oc, pf) == precedence_loop(token, oc, pf)

\* if (token->operator_arity() != 1) while (...) { ... }
pop_operators(token, oc, pf) ==
  IF arity(token.operator) # 1 THEN precedence_loop(token, oc, pf)
  ELSE [oc |-> oc, pf |-> pf]

shunting_yard_Operator ==
  /\ UNCHANGED llir_vars
  /\ SyStep
  /\ is_operator(Head(infix))
  /\ ~is_sentinel(Head(infix)) /\ Head(infix).operator # "Rbr"
  /\ infix' = Tail(infix)
  /\ LET token == Head(infix)
         l == pop_operators(token, operator_cache, postfix)
     IN /\ postfix' = l.pf
        /\ IF token.operator # "Sep"
           THEN /\ operator_cache' = Append(l.oc, token)
                /\ UNCHANGED <<function_cache, stdout, pc, exit_code>>
           ELSE IF function_cache = <<>>
           THEN /\ operator_cache' = l.oc
                /\ Fail("shunting_yard", "Separator outside function")
                /\ UNCHANGED function_cache
           ELSE /\ operator_cache' = l.oc
                /\ function_cache' = increase_top_argc(function_cache)
                /\ UNCHANGED <<stdout, pc, exit_code>>
  /\ UNCHANGED <<expr, iter, postfix_ll, result, out, calls>>
  /\ UNCHANGED <<depths, depths_ll>>

\* mutant of drain_stops: sentinels are drained like operators
drain_stops_never(op) == FALSE

\* if (op->is_sentinel())
drain_stops(op) == is_sentinel(op)

\* the loop after the input is consumed; ok is false when it met a sentinel
RECURSIVE drain_loop(_, _)
drain_loop(oc, pf) ==
  IF oc = <<>> THEN [ok |-> TRUE, oc |-> oc, pf |-> pf]
  ELSE IF drain_stops(Top(oc)) THEN [ok |-> FALSE, oc |-> oc, pf |-> pf]
  ELSE drain_loop(Pop(oc), Append(pf, Top(oc)))

\* mutant of end_of_input: the function stack is looked at first
end_of_input_function_first(l, fc) ==
  IF fc # <<>> THEN "Syntax error"
  ELSE IF ~l.ok THEN "Parentheses are mismatched"
  ELSE ""

\* the message shunting_yard ends with once the input is consumed ("" on success)
end_of_input(l, fc) ==
  IF ~l.ok THEN "Parentheses are mismatched"
  ELSE IF fc # <<>> THEN "Syntax error"
  ELSE ""

\* the end of shunting_yard and, on success, the copy main takes of postfix
shunting_yard_return ==
  /\ UNCHANGED llir_vars
  /\ pc = "shunting_yard"
  /\ infix = <<>>
  /\ LET l == drain_loop(operator_cache, postfix)
         msg == end_of_input(l, function_cache)
     IN /\ operator_cache' = l.oc
        /\ postfix' = l.pf
        /\ IF msg # ""
           THEN /\ Fail("shunting_yard", msg)
                /\ UNCHANGED postfix_ll
           ELSE /\ postfix_ll' = l.pf
                /\ pc' = "eval"
                /\ UNCHANGED <<stdout, exit_code>>
  /\ UNCHANGED <<expr, iter, infix, function_cache, result, out, calls>>
  /\ UNCHANGED <<depths, depths_ll>>

(***************************************************************************)
(* Arithmetic on doubles: exact on the tracked integers, Unknown beyond.   *)
(***************************************************************************)
Abs(n) == IF n < 0 THEN -n ELSE n

\* bitwise and of two ints in two's complement
RECURSIVE bit_and(_, _)
bit_and(a, b) ==
  IF a = 0 \/ b = 0 THEN 0
  ELSE IF a = -1 THEN b
  ELSE IF b = -1 THEN a
  ELSE 2 * bit_and(a \div 2, b \div 2) + (a % 2) * (b % 2)

\* a * 2^b, Unknown once it leaves the tracked range
RECURSIVE shift_left(_, _)
shift_left(a, b) ==
  IF Abs(a) > MaxExact THEN Unknown
  ELSE IF b = 0 THEN Known(a)
  ELSE shift_left(2 * a, b - 1)

\* floor(a / 2^b)
RECURSIVE shift_right(_, _)
shift_right(a, b) == IF b = 0 THEN a ELSE shift_right(a \div 2, b - 1)

\* r * a^b for b >= 0, Unknown once it leaves the tracked range
RECURSIVE power(_, _, _)
power(a, b, r) ==
  IF ~IsKnown(r) THEN Unknown
  ELSE IF b = 0 THEN r
  ELSE power(a, b - 1, Exact(Num(r) * a))

\* std::pow
pow(a, b) ==
  IF ~IsKnown(a) \/ ~IsKnown(b) THEN Unknown
  ELSE IF Num(b) < 0 THEN Unknown
  ELSE IF Num(a) \in {0, 1} THEN (IF Num(b) = 0 THEN Known(1) ELSE a)
  ELSE IF Num(a) = -1 THEN Known(IF Num(b) % 2 = 0 THEN 1 ELSE -1)
  ELSE power(Num(a), Num(b), Known(1))

\* std::hypot: exact when the sum of the squares is a tracked square
hypot(a, b) ==
  IF ~IsKnown(a) \/ ~IsKnown(b) THEN Unknown
  ELSE LET s == Num(a) * Num(a) + Num(b) * Num(b)
           roots == {r \in 0..(Abs(Num(a)) + Abs(Num(b))) : r * r = s}
       IN IF roots = {} THEN Unknown ELSE Known(CHOOSE r \in roots : TRUE)

\* the lambdas of parser::operator_exec; v holds arity(op) doubles
operator_exec(op, v) ==
  IF \E i \in 1..Len(v) : ~IsKnown(v[i]) THEN Unknown
  ELSE LET a == Num(v[1])
           b == Num(v[2])
       IN CASE op = "And" -> Known(bit_and(a, b))
            [] op = "Or"  -> Known(a + b - bit_and(a, b))
            [] op = "Xor" -> Known(a + b - 2 * bit_and(a, b))
            [] op = "Rsh" -> IF b \in 0..31 THEN Known(shift_right(a, b)) ELSE Unknown
            [] op = "Lsh" -> IF b \in 0..31 /\ a >= 0 THEN shift_left(a, b) ELSE Unknown
            [] op = "Add" -> Exact(a + b)
            [] op = "Sub" -> Exact(a - b)
            [] op = "Mul" -> Exact(a * b)
            [] op = "Div" -> IF b # 0 /\ Abs(a) % Abs(b) = 0
                             THEN Known((IF (a < 0) = (b < 0) THEN 1 ELSE -1) * (Abs(a) \div Abs(b)))
                             ELSE Unknown
            [] op = "Rem" -> IF b # 0
                             THEN Known((IF a < 0 THEN -1 ELSE 1) * (Abs(a) % Abs(b)))
                             ELSE Unknown
            [] op = "Exp" -> pow(v[1], v[2])
            [] op = "Not" -> Known(-a - 1)
            [] op = "Pos" -> Known(a)
            [] op = "Neg" -> Known(-a)

\* the keys of parser::operator_exec
OperatorHandlers ==
  {"And", "Or", "Xor", "Rsh", "Lsh", "Add", "Sub", "Mul", "Div", "Rem", "Exp",
   "Not", "Pos", "Neg"}

\* the binary primitive that r(double, fn) reduces with
reduce_fn(fn, a, b) ==
  CASE fn = "Hypot" -> hypot(a, b)
    [] fn = "Max" -> IF IsKnown(a) /\ IsKnown(b)
                     THEN (IF Num(a) < Num(b) THEN b ELSE a) ELSE Unknown
    [] fn = "Min" -> IF IsKnown(a) /\ IsKnown(b)
                     THEN (IF Num(b) < Num(a) THEN b ELSE a) ELSE Unknown

\* the for loop of binary_reduce, from index i (1-based) with accumulator r
RECURSIVE reduce_loop(_, _, _, _)
reduce_loop(fn, v, i, r) ==
  IF i > Len(v) THEN r ELSE reduce_loop(fn, v, i + 1, reduce_fn(fn, r, v[i]))

binary_reduce(v, fn) ==
  IF Len(v) = 0 THEN Known(0)
  ELSE IF Len(v) = 1 THEN v[1]
  ELSE reduce_loop(fn, v, 3, reduce_fn(fn, v[1], v[2]))

\* the number of elements of v that the handler of fn reads by index
\* (v_1 reads v[0], v_2 reads v[0] and v[1], r(...) reads none unchecked)
handler_reads(fn) == IF function_arity(fn) = -1 THEN 0 ELSE function_arity(fn)

\* the lambdas of parser::function_exec, for v with at least handler_reads(fn)
\* elements
function_exec(fn, v) ==
  CASE fn \in {"Hypot", "Max", "Min"} -> binary_reduce(v, fn)
    [] fn = "Pow" -> pow(v[1], v[2])
    [] fn = "Abs" -> IF IsKnown(v[1]) THEN Known(Abs(Num(v[1]))) ELSE Unknown
    [] fn \in {"Ceil", "Floor", "Round", "Trunc"} -> v[1]
    [] OTHER -> Unknown

(***************************************************************************)
(* parser::eval<double>, one action per branch of the loop body            *)
(***************************************************************************)
EvalStep ==
  /\ pc = "eval"
  /\ postfix # <<>>

\* mutant of top_values: the operands in the order they are popped
top_values_popped(rs, n) == [i \in 1..n |-> rs[Len(rs) + 1 - i]]

\* the last n elements of the result stack, earliest pushed first
top_values(rs, n) == SubSeq(rs, Len(rs) - n + 1, Len(rs))

drop_values(rs, n) == SubSeq(rs, 1, Len(rs) - n)

\* (int) of a double
int_cast(v) == IF IsKnown(v) THEN {Num(v)} ELSE -1..2

Call(type, kind, values) == [type |-> type, kind |-> kind, values |-> values]

eval_Value ==
  /\ UNCHANGED llir_vars
  /\ EvalStep
  /\ is_value(Head(postfix))
  /\ postfix' = Tail(postfix)
  /\ result' = Append(result, Head(postfix).value)
  /\ UNCHANGED <<expr, iter, infix, postfix_ll, operator_cache, function_cache,
                 out, calls, stdout, pc, exit_code>>
  /\ depths' = IF pc' = "exit" THEN depths ELSE Append(depths, Len(result'))
  /\ UNCHANGED depths_ll

\* if (n > result.size())
operator_underflow(token, rs) == arity(token.operator) > Len(rs)

eval_Operator ==
  /\ UNCHANGED llir_vars
  /\ EvalStep
  /\ is_operator(Head(postfix))
  /\ postfix' = Tail(postfix)
  /\ LET token == Head(postfix)
         n == arity(token.operator)
     IN IF operator_underflow(token, result)
        THEN /\ Fail("eval", "Syntax error")
             /\ UNCHANGED <<result, calls>>
        ELSE IF token.operator \notin OperatorHandlers
        THEN \* operator_exec.at(op) throws std::out_of_range
             /\ Throw
             /\ result' = drop_values(result, n)
             /\ UNCHANGED <<calls, stdout>>
        ELSE /\ result' = Append(drop_values(result, n),
                                 operator_exec(token.operator, top_values(result, n)))
             /\ calls' = Append(calls, Call("Operator", token.operator, top_values(result, n)))
             /\ UNCHANGED <<stdout, pc, exit_code>>
  /\ UNCHANGED <<expr, iter, infix, postfix_ll, operator_cache, function_cache, out>>
  /\ depths' = IF pc' = "exit" THEN depths ELSE Append(depths, Len(result'))
  /\ UNCHANGED depths_ll

\* if (token->function_arity() > (int)result.size() || n > result.size());
\* n is converted to size_t for the second comparison
function_underflow(token, n, rs) ==
  function_arity(token.function) > Len(rs) \/ n < 0 \/ n > Len(rs)

\* the handler call of the function branch, once n operands are known to be
\* on the stack
call_function(token, n) ==
  /\ calls' = Append(calls, Call("Function", token.function, top_values(result, n)))
  /\ IF n >= handler_reads(token.function)
     THEN /\ result' = Append(drop_values(result, n),
                              function_exec(token.function, top_values(result, n)))
          /\ UNCHANGED <<stdout, pc, exit_code>>
     ELSE \* the handler reads past the end of the operand vector: the
          \* process dies, or goes on with whatever it read
          \E ub \in {"crash", "garbage"} :
            /\ UNCHANGED stdout
            /\ IF ub = "crash"
               THEN /\ pc' = "exit" /\ exit_code' = 139
                    /\ result' = drop_values(result, n)
               ELSE /\ result' = Append(drop_values(result, n), Unknown)
                    /\ UNCHANGED <<pc, exit_code>>

eval_Function ==
  /\ UNCHANGED llir_vars
  /\ EvalStep
  /\ is_function(Head(postfix))
  /\ LET token == Head(postfix)
         rest == Tail(postfix)
     IN IF rest = <<>>
        THEN \* postfix.front() of an empty list is undefined
             /\ postfix' = <<>>
             /\ \E ub \in {"crash", "garbage"} :
                  IF ub = "crash"
                  THEN /\ pc' = "exit" /\ exit_code' = 139
                       /\ UNCHANGED <<result, calls, stdout>>
                  ELSE \E n \in -1..2 :
                         IF function_underflow(token, n, result)
                         THEN Fail("eval", "Syntax error") /\ UNCHANGED <<result, calls>>
                         ELSE call_function(token, n)
        ELSE /\ postfix' = Tail(rest)
             /\ \E n \in int_cast(IF is_value(Head(rest)) THEN Head(rest).value ELSE Known(0)) :
                  IF function_underflow(token, n, result)
                  THEN Fail("eval", "Syntax error") /\ UNCHANGED <<result, calls>>
                  ELSE call_function(token, n)
  /\ UNCHANGED <<expr, iter, infix, postfix_ll, operator_cache, function_cache, out>>
  /\ depths' = IF pc' = "exit" THEN depths ELSE Append(depths, Len(result'))
  /\ UNCHANGED depths_ll

\* mutant of residual: only an empty result stack is an error
residual_empty_only(rs) == Len(rs) = 0

\* if (result.size() != 1)
residual(rs) == Len(rs) # 1

\* the end of eval and, on success, the line main prints
eval_return ==
  /\ UNCHANGED llir_vars
  /\ pc = "eval"
  /\ postfix = <<>>
  /\ IF residual(result)
     THEN /\ Fail("eval", "Syntax error")
          /\ UNCHANGED out
     ELSE /\ out' = Top(result)
          /\ stdout' = Append(stdout, <<"main", "Result">>)
          /\ pc' = "compile"
          /\ UNCHANGED exit_code
  /\ UNCHANGED <<expr, iter, infix, postfix, postfix_ll, operator_cache,
                 function_cache, result, calls>>
  /\ UNCHANGED <<depths, depths_ll>>

(***************************************************************************)
(* llir: the module under construction.  An IR value is a constant or the  *)
(* result of an instruction of the entry block of main; the builder is a   *)
(* NoFolder builder, so every Create* call appends one instruction.        *)
(***************************************************************************)
\* llvm::ConstantFP::get(t_double(), a) and llvm::Constant::getNullValue
ConstantFP(a) == [kind |-> "const", v |-> a, id |-> 0]

\* the value of the k-th instruction of the entry block
Inst(k) == [kind |-> "inst", v |-> Unknown, id |-> k]

\* the builder and the module: the instructions of the entry block and the
\* functions of the module, both in creation order
Builder(e, f) == [entry |-> e, functions |-> f]

\* builder->Create<op>(args): the builder after the call and the new value
Create(b, op, args) ==
  [b |-> [b EXCEPT !.entry = Append(@, [op |-> op, callee |-> 0, args |-> args])],
   value |-> Inst(Len(b.entry) + 1)]

\* builder->CreateCall(callee, args)
CreateCall(b, callee, args) ==
  [b |-> [b EXCEPT !.entry = Append(@, [op |-> "call", callee |-> callee, args |-> args])],
   value |-> Inst(Len(b.entry) + 1)]

\* the closure declare_fn returns keeps fn_ptr; slot names the closure.  Its
\* fn_ptr is the function of the module that this closure created (0 is
\* nullptr)
fn_ptr(f, slot) ==
  IF \E i \in 1..Len(f) : f[i].slot = slot
  THEN CHOOSE i \in 1..Len(f) : f[i].slot = slot
  ELSE 0

\* a call of the closure: if (!fn_ptr) fn_ptr = init(); return fn_ptr;
\* init() is llvm::Function::Create(..., name, *module)
declare_fn(b, slot, name, argc) ==
  IF fn_ptr(b.functions, slot) # 0
  THEN [b |-> b, ptr |-> fn_ptr(b.functions, slot)]
  ELSE [b |-> [b EXCEPT !.functions = Append(@, [name |-> name, argc |-> argc, slot |-> slot])],
        ptr |-> Len(b.functions) + 1]

\* the name and the parameter count each entry of ir_math declares
ir_math ==
  [fn \in FunctionTypes \ {"Pass"} |->
     CASE fn = "Abs"   -> <<"fabs", 1>>
       [] fn = "Acos"  -> <<"acos", 1>>
       [] fn = "Acosh" -> <<"acosh", 1>>
       [] fn = "Asin"  -> <<"asin", 1>>
       [] fn = "Asinh" -> <<"asinh", 1>>
       [] fn = "Atan"  -> <<"atan", 1>>
       [] fn = "Atanh" -> <<"atanh", 1>>
       [] fn = "Atan2" -> <<"atan2", 2>>
       [] fn = "Cbrt"  -> <<"cbrt", 1>>
       [] fn = "Ceil"  -> <<"fabs", 1>>
       [] fn = "Cos"   -> <<"cos", 1>>
       [] fn = "Cosh"  -> <<"cosh", 1>>
       [] fn = "Exp"   -> <<"exp", 1>>
       [] fn = "Floor" -> <<"floor", 1>>
       [] fn = "Hypot" -> <<"hypot", 2>>
       [] fn = "Log"   -> <<"log", 1>>
       [] fn = "Log2"  -> <<"log2", 1>>
       [] fn = "Log10" -> <<"log10", 1>>
       [] fn = "Max"   -> <<"fmax", 2>>
       [] fn = "Min"   -> <<"fmin", 2>>
       [] fn = "Pow"   -> <<"pow", 2>>
       [] fn = "Round" -> <<"round", 1>>
       [] fn = "Sin"   -> <<"sin", 1>>
       [] fn = "Sinh"  -> <<"sinh", 1>>
       [] fn = "Sqrt"  -> <<"sqrt", 1>>
       [] fn = "Tan"   -> <<"tan", 1>>
       [] fn = "Tanh"  -> <<"tanh", 1>>
       [] fn = "Trunc" -> <<"trunc", 1>>]

\* ir_math.at(fn)(): the closure stored in the map itself
ir_math_call(b, fn) == declare_fn(b, <<"ir_math", fn>>, ir_math[fn][1], ir_math[fn][2])

\* exec(): function_exec is built with auto exec = kv.second, a copy of the
\* closure (fn_ptr still null) that each handler captures by value
exec(b, fn) == declare_fn(b, <<"function_exec", fn>>, ir_math[fn][1], ir_math[fn][2])

ir_printf(b) == declare_fn(b, <<"ir_printf", "Pass">>, "printf", 1)

ir_main(b) == declare_fn(b, <<"ir_main", "Pass">>, "main", 0)

\* as_int: every operand through CreateFPToSI, fn on the converted operands,
\* the result through CreateSIToFP
RECURSIVE as_int_map(_, _, _, _)
as_int_map(b, v, i, mapped) ==
  IF i > Len(v) THEN [b |-> b, mapped |-> mapped]
  ELSE LET c == Create(b, "fptosi", <<v[i]>>)
       IN as_int_map(c.b, v, i + 1, Append(mapped, c.value))

as_int(b, v, op) ==
  LET m == as_int_map(b, v, 1, <<>>)
      i == Create(m.b, op, m.mapped)
  IN Create(i.b, "sitofp", <<i.value>>)

\* the instruction each native entry of llir::operator_exec creates
ir_opcode ==
  ("And" :> "and") @@ ("Or" :> "or") @@ ("Xor" :> "xor") @@ ("Rsh" :> "ashr") @@
  ("Lsh" :> "shl") @@ ("Add" :> "fadd") @@ ("Sub" :> "fsub") @@ ("Mul" :> "fmul") @@
  ("Div" :> "fdiv") @@ ("Rem" :> "frem") @@ ("Not" :> "not") @@ ("Neg" :> "fneg")

\* the lambdas of llir::operator_exec
llir_operator_exec(b, op, v) ==
  CASE op \in {"And", "Or", "Xor", "Rsh", "Lsh", "Not"} -> as_int(b, v, ir_opcode[op])
    [] op \in {"Add", "Sub", "Mul", "Div", "Rem", "Neg"} -> Create(b, ir_opcode[op], v)
    [] op = "Exp" -> LET d == ir_math_call(b, "Pow") IN CreateCall(d.b, d.ptr, v)
    [] op = "Pos" -> [b |-> b, value |-> v[1]]

\* binary_reduce<llvm::Value*> with fn = CreateCall(exec(), { a, b })
RECURSIVE llir_reduce_loop(_, _, _, _, _)
llir_reduce_loop(b, fn, v, i, r) ==
  IF i > Len(v) THEN [b |-> b, value |-> r]
  ELSE LET d == exec(b, fn)
           c == CreateCall(d.b, d.ptr, <<r, v[i]>>)
       IN llir_reduce_loop(c.b, fn, v, i + 1, c.value)

\* the handlers of llir::function_exec.  The handler reads fn through a
\* reference to a variable of the loop that built the map, which is gone
\* when the handler runs: variadic is what arity(fn) == -1 evaluates to
llir_function_exec(b, fn, v, variadic) ==
  IF v = <<>> THEN [b |-> b, value |-> ConstantFP(Known(0))]
  ELSE IF variadic
  THEN (IF Len(v) = 1 THEN [b |-> b, value |-> v[1]]
        ELSE LET d == exec(b, fn)
                 c == CreateCall(d.b, d.ptr, <<v[1], v[2]>>)
             IN llir_reduce_loop(c.b, fn, v, 3, c.value))
  ELSE LET d == exec(b, fn) IN CreateCall(d.b, d.ptr, v)

\* a call whose operands do not fit the parameters of the callee (printf is
\* variadic: any operands after the format fit)
bad_signature(f, i) ==
  /\ i.op = "call"
  /\ IF f[i.callee].name = "printf" THEN Len(i.args) < 1
     ELSE Len(i.args) # f[i.callee].argc

\* llvm::verifyModule: true when the module is broken
verifyModule(b) ==
  \E k \in 1..Len(b.entry) : bad_signature(b.functions, b.entry[k])

(***************************************************************************)
(* What the generated module computes when it is run: the instructions of  *)
(* the entry block in order, on the doubles the model tracks.              *)
(***************************************************************************)
\* the C library routine of that name, applied to the operands v
libm(name, v) ==
  CASE name = "fabs" -> IF IsKnown(v[1]) THEN Known(Abs(Num(v[1]))) ELSE Unknown
    [] name \in {"ceil", "floor", "round", "trunc"} -> v[1]
    [] name = "pow" -> pow(v[1], v[2])
    [] name = "hypot" -> hypot(v[1], v[2])
    [] name = "fmax" -> reduce_fn("Max", v[1], v[2])
    [] name = "fmin" -> reduce_fn("Min", v[1], v[2])
    [] OTHER -> Unknown

\* the C++ operator that computes what the instruction computes
ir_meaning ==
  ("and" :> "And") @@ ("or" :> "Or") @@ ("xor" :> "Xor") @@ ("ashr" :> "Rsh") @@
  ("shl" :> "Lsh") @@ ("fadd" :> "Add") @@ ("fsub" :> "Sub") @@ ("fmul" :> "Mul") @@
  ("fdiv" :> "Div") @@ ("frem" :> "Rem") @@ ("not" :> "Not") @@ ("fneg" :> "Neg")

\* the double an operand stands for, given the values of the instructions
\* executed so far
operand(h, vals) ==
  IF h.kind = "const" THEN h.v
  ELSE IF h.kind = "inst" /\ h.id <= Len(vals) THEN vals[h.id]
  ELSE Unknown

\* the value of the instruction i of a module with the functions f
execute(i, f, vals) ==
  LET v == [k \in 1..Len(i.args) |-> operand(i.args[k], vals)]
  IN IF i.op \in {"fptosi", "sitofp"} THEN v[1]
     ELSE IF i.op \in DOMAIN ir_meaning THEN operator_exec(ir_meaning[i.op], v)
     ELSE IF i.op = "call" /\ ~bad_signature(f, i) THEN libm(f[i.callee].name, v)
     ELSE Unknown

\* the values of the instructions of e
RECURSIVE run(_, _, _)
run(e, f, vals) ==
  IF Len(vals) = Len(e) THEN vals
  ELSE run(e, f, Append(vals, execute(e[Len(vals) + 1], f, vals)))

(***************************************************************************)
(* llir::compile: init(), then parser::eval<llvm::Value*>, one action per  *)
(* branch of the loop body, then print() and wrap()                        *)
(***************************************************************************)
\* the builder state held in the variables
TheBuilder == Builder(entry, functions)

\* the variables take the builder state b
SetBuilder(b) ==
  /\ entry' = b.entry
  /\ functions' = b.functions

\* init(): the entry block of ir_main()
compile_init ==
  /\ pc = "compile"
  /\ SetBuilder(ir_main(TheBuilder).b)
  /\ pc' = "llir_eval"
  /\ UNCHANGED <<expr, iter, infix, postfix, postfix_ll, operator_cache,
                 function_cache, result, out, calls, stdout, exit_code,
                 result_ll, out_ll, calls_ll, verified, written>>
  /\ UNCHANGED <<depths, depths_ll>>

LlirStep ==
  /\ pc = "llir_eval"
  /\ postfix_ll # <<>>

llir_eval_Value ==
  /\ LlirStep
  /\ is_value(Head(postfix_ll))
  /\ postfix_ll' = Tail(postfix_ll)
  /\ result_ll' = Append(result_ll, ConstantFP(Head(postfix_ll).value))
  /\ UNCHANGED <<expr, iter, infix, postfix, operator_cache, function_cache,
                 result, out, calls, stdout, pc, exit_code,
                 entry, functions, out_ll, calls_ll, verified, written>>
  /\ depths_ll' = IF pc' = "exit" THEN depths_ll ELSE Append(depths_ll, Len(result_ll'))
  /\ UNCHANGED depths

\* the handler returned r: its value replaces the n operands it was given.
\* A call instruction with a bad signature trips an assertion of
\* CallInst::init in a build of the library with assertions, and is created
\* as it is in a build without
\* mutant of push_value: the operands of the call stay on the result stack
push_value_keep(r, n) ==
  /\ result_ll' = Append(result_ll, r.value)
  /\ SetBuilder(r.b)
  /\ UNCHANGED <<pc, exit_code>>

push_value(r, n) ==
  IF verifyModule(r.b) /\ ~verifyModule(TheBuilder)
  THEN \E build \in {"assertions", "release"} :
         IF build = "assertions"
         THEN /\ Throw
              /\ result_ll' = drop_values(result_ll, n)
              /\ UNCHANGED <<entry, functions>>
         ELSE /\ result_ll' = Append(drop_values(result_ll, n), r.value)
              /\ SetBuilder(r.b)
              /\ UNCHANGED <<pc, exit_code>>
  ELSE /\ result_ll' = Append(drop_values(result_ll, n), r.value)
       /\ SetBuilder(r.b)
       /\ UNCHANGED <<pc, exit_code>>

llir_eval_Operator ==
  /\ LlirStep
  /\ is_operator(Head(postfix_ll))
  /\ postfix_ll' = Tail(postfix_ll)
  /\ LET token == Head(postfix_ll)
         n == arity(token.operator)
     IN IF operator_underflow(token, result_ll)
        THEN /\ Fail("compile", "Syntax error")
             /\ UNCHANGED <<result_ll, calls_ll, entry, functions>>
        ELSE IF token.operator \notin OperatorHandlers
        THEN \* operator_exec.at(op) throws std::out_of_range
             /\ Throw
             /\ result_ll' = drop_values(result_ll, n)
             /\ UNCHANGED <<calls_ll, stdout, entry, functions>>
        ELSE /\ push_value(llir_operator_exec(TheBuilder, token.operator,
                                              top_values(result_ll, n)), n)
             /\ calls_ll' = Append(calls_ll, Call("Operator", token.operator,
                                                  top_values(result_ll, n)))
             /\ UNCHANGED stdout
  /\ UNCHANGED <<expr, iter, infix, postfix, operator_cache, function_cache,
                 result, out, calls, out_ll, verified, written>>
  /\ depths_ll' = IF pc' = "exit" THEN depths_ll ELSE Append(depths_ll, Len(result_ll'))
  /\ UNCHANGED depths

\* the handler call of the function branch
llir_call_function(token, n) ==
  /\ calls_ll' = Append(calls_ll, Call("Function", token.function, top_values(result_ll, n)))
  /\ UNCHANGED stdout
  /\ \E variadic \in BOOLEAN :
       push_value(llir_function_exec(TheBuilder, token.function,
                                     top_values(result_ll, n), variadic), n)

llir_eval_Function ==
  /\ LlirStep
  /\ is_function(Head(postfix_ll))
  /\ LET token == Head(postfix_ll)
         rest == Tail(postfix_ll)
     IN IF rest = <<>>
        THEN \* postfix.front() of an empty list is undefined
             /\ postfix_ll' = <<>>
             /\ \E ub \in {"crash", "garbage"} :
                  IF ub = "crash"
                  THEN /\ pc' = "exit" /\ exit_code' = 139
                       /\ UNCHANGED <<result_ll, calls_ll, stdout, entry, functions>>
                  ELSE \E n \in -1..2 :
                         IF function_underflow(token, n, result_ll)
                         THEN /\ Fail("compile", "Syntax error")
                              /\ UNCHANGED <<result_ll, calls_ll, entry, functions>>
                         ELSE llir_call_function(token, n)
        ELSE /\ postfix_ll' = Tail(rest)
             /\ \E n \in int_cast(IF is_value(Head(rest)) THEN Head(rest).value ELSE Known(0)) :
                  IF function_underflow(token, n, result_ll)
                  THEN /\ Fail("compile", "Syntax error")
                       /\ UNCHANGED <<result_ll, calls_ll, entry, functions>>
                  ELSE llir_call_function(token, n)
  /\ UNCHANGED <<expr, iter, infix, postfix, operator_cache, function_cache,
                 result, out, calls, out_ll, verified, written>>
  /\ depths_ll' = IF pc' = "exit" THEN depths_ll ELSE Append(depths_ll, Len(result_ll'))
  /\ UNCHANGED depths

\* builder->CreateGlobalStringPtr(format)
GlobalStringPtr == [kind |-> "string", v |-> Unknown, id |-> 0]

\* print(format, values): builder->CreateCall(ir_printf(), args)
print(b, values) ==
  LET d == ir_printf(b) IN CreateCall(d.b, d.ptr, <<GlobalStringPtr>> \o values).b

\* wrap(): CreateRet, verifyModule (its result is dropped), module->print
wrap(b) ==
  LET r == Create(b, "ret", <<>>).b
  IN [b |-> r, verified |-> IF verifyModule(r) THEN "broken" ELSE "ok",
      written |-> TRUE]

\* the end of eval<llvm::Value*> and, on success, the rest of compile and
\* the return of main
llir_eval_return ==
  /\ pc = "llir_eval"
  /\ postfix_ll = <<>>
  /\ IF residual(result_ll)
     THEN /\ Fail("compile", "Syntax error")
          /\ UNCHANGED <<out_ll, entry, functions, verified, written>>
     ELSE LET w == wrap(print(TheBuilder, <<Top(result_ll)>>))
          IN /\ out_ll' = Top(result_ll)
             /\ SetBuilder(w.b)
             /\ verified' = w.verified
             /\ written' = w.written
             /\ pc' = "done"
             /\ exit_code' = 0
             /\ UNCHANGED stdout
  /\ UNCHANGED <<expr, iter, infix, postfix, postfix_ll, operator_cache,
                 function_cache, result, out, calls, result_ll, calls_ll>>
  /\ UNCHANGED <<depths, depths_ll>>

Next ==
  \/ parse_infix_Value
  \/ parse_infix_Operator
  \/ parse_infix_Function
  \/ parse_infix_Constant
  \/ parse_infix_Whitespace
  \/ parse_infix_Invalid
  \/ parse_infix_return
  \/ shunting_yard_Value
  \/ shunting_yard_Function
  \/ shunting_yard_Sentinel
  \/ shunting_yard_Rbr
  \/ shunting_yard_Operator
  \/ shunting_yard_return
  \/ eval_Value
  \/ eval_Operator
  \/ eval_Function
  \/ eval_return
  \/ compile_init
  \/ llir_eval_Value
  \/ llir_eval_Operator
  \/ llir_eval_Function
  \/ llir_eval_return

Spec == Init /\ [][Next]_vars

(***************************************************************************)
(* Properties.                                                             *)
(***************************************************************************)
Val(k) == ValueToken(stod[k])

Op(key) == OperatorToken(token_to_operator[key])

Last(s) == s[Len(s)]

\* the lexer or the parser rejected the line
Rejected ==
  /\ pc = "exit"
  /\ stdout # <<>>
  /\ Last(stdout)[1] \in {"parse_infix", "shunting_yard"}

\* shunting_yard has just returned true and main holds its output
Parsed == pc = "eval"

\* the binding strength of the binary operators: & | ^ < shifts < + - <
\* * / % < **
Level(key) ==
  CASE key \in {"&", "|", "^"} -> 1
    [] key \in {">>", "<<"} -> 2
    [] key \in {"+", "-"} -> 3
    [] key \in {"*", "/", "%"} -> 4
    [] key = "**" -> 5

\* C1: for binary operators a, b with a binding less tightly than b,
\* x a y b z becomes the postfix x y z b a and x b y a z becomes x y b z a;
\* 1 + 2 * 3 evaluates to 7
C1_Precedence ==
  /\ Len(expr) = 5 /\ (Rejected \/ Parsed) =>
     \A a, b \in BinaryKeys :
       Level(a) < Level(b) =>
         /\ expr = Infix5(a, b) =>
              /\ ~Rejected
              /\ Parsed => postfix_ll = <<Val("1"), Val("2"), Val("3"), Op(b), Op(a)>>
         /\ expr = Infix5(b, a) =>
              /\ ~Rejected
              /\ Parsed => postfix_ll = <<Val("1"), Val("2"), Op(b), Val("3"), Op(a)>>
  /\ expr = Infix5("+", "*") => pc # "exit" /\ (pc = "compile" => out = Known(7))

C1_Witness ==
  /\ expr = Infix5("+", "*")
  /\ pc = "compile"
  /\ postfix_ll = <<Val("1"), Val("2"), Val("3"), Op("*"), Op("+")>>
  /\ out = Known(7)

\* C2: for binary operators a, b of equal precedence, ** with itself
\* included, x a y b z becomes the postfix x y a z b; 2 ** 3 ** 2 is
\* (2 ** 3) ** 2 = 64
C2_LeftAssociative ==
  /\ Len(expr) = 5 /\ (Rejected \/ Parsed) =>
     \A a, b \in BinaryKeys :
       Level(a) = Level(b) /\ expr = Infix5(a, b) =>
         /\ ~Rejected
         /\ Parsed => postfix_ll = <<Val("1"), Val("2"), Op(a), Val("3"), Op(b)>>
  /\ expr = <<V("2"), O("**"), V("3"), O("**"), V("2")>> =>
       /\ pc # "exit"
       /\ Parsed => postfix_ll = <<Val("2"), Val("3"), Op("**"), Val("2"), Op("**")>>
       /\ pc = "compile" => out = Known(64)

C2_Witness ==
  /\ expr = <<V("2"), O("**"), V("3"), O("**"), V("2")>>
  /\ pc = "compile"
  /\ out = Known(64)

Reverse(q) == [i \in 1..Len(q) |-> q[Len(q) + 1 - i]]

\* the positions of the sentinels on the operator stack
Sentinels(oc) == {i \in 1..Len(oc) : is_sentinel(oc[i])}

\* the position of the sentinel nearest to the top
Nearest(oc) == CHOOSE i \in Sentinels(oc) : \A j \in Sentinels(oc) : j <= i

\* shunting_yard is about to process the operator token op
AtOperator(op) ==
  /\ SyStep
  /\ Head(infix) = OperatorToken(op)

\* C4: on ")" the parser emits every operator above the nearest sentinel,
\* top first, removes that sentinel without emitting it and leaves what is
\* below it untouched; an incoming binary operator or separator never pops
\* a sentinel; (x a y) b z becomes x y a z b and (1 + 2) * 3 evaluates to 9
C4_ParenthesisOverride ==
  /\ [][AtOperator("Rbr") /\ Sentinels(operator_cache) # {} =>
          LET k == Nearest(operator_cache)
              above == SubSeq(operator_cache, k + 1, Len(operator_cache))
          IN /\ operator_cache' = SubSeq(operator_cache, 1, k - 1)
             /\ SubSeq(postfix', 1, Len(postfix) + Len(above)) = postfix \o Reverse(above)
             /\ \A i \in 1..Len(postfix') : ~is_sentinel(postfix'[i])
             /\ operator_cache[k].operator = "Lbr" =>
                  Len(postfix') = Len(postfix) + Len(above)]_vars
  /\ [][/\ SyStep
        /\ is_operator(Head(infix))
        /\ arity(Head(infix).operator) = 2
        /\ Sentinels(operator_cache) # {}
        => LET k == Nearest(operator_cache)
           IN /\ Len(operator_cache') >= k
              /\ SubSeq(operator_cache', 1, k) = SubSeq(operator_cache, 1, k)
              /\ \A i \in 1..Len(postfix') : ~is_sentinel(postfix'[i])]_vars
  /\ [](Len(expr) = 7 /\ (Rejected \/ Parsed) =>
        \A a, b \in BinaryKeys :
          expr = Paren7(a, b) =>
            /\ ~Rejected
            /\ Parsed => postfix_ll = <<Val("1"), Val("2"), Op(a), Val("3"), Op(b)>>)
  /\ [](expr = Paren7("+", "*") => pc # "exit" /\ (pc = "compile" => out = Known(9)))

C4_Witness ==
  /\ expr = Paren7("+", "*")
  /\ pc = "compile"
  /\ postfix_ll = <<Val("1"), Val("2"), Op("+"), Val("3"), Op("*")>>
  /\ out = Known(9)

\* the bracket depth after the matches w[i..], from depth d; -1 once a ")"
\* has no "(" to close
RECURSIVE Depth(_, _, _)
Depth(w, i, d) ==
  IF d < 0 THEN -1
  ELSE IF i > Len(w) THEN d
  ELSE IF w[i] = O("(") THEN Depth(w, i + 1, d + 1)
  ELSE IF w[i] = O(")") THEN Depth(w, i + 1, d - 1)
  ELSE Depth(w, i + 1, d)

\* every ")" of the line closes a "(" and every "(" is closed
Balanced(w) == Depth(w, 1, 0) = 0

Mismatched ==
  /\ pc' = "exit"
  /\ exit_code' = 1
  /\ stdout' = Append(stdout, <<"shunting_yard", "Parentheses are mismatched">>)

C6_SeparatorOutsideCall ==
  /\ [][AtOperator("Sep") /\ function_cache = <<>> =>
          /\ pc' = "exit"
          /\ exit_code' = 1
          /\ stdout' = Append(stdout, <<"shunting_yard", "Separator outside function">>)]_vars
  /\ [][AtOperator("Sep") /\ function_cache # <<>> =>
          /\ pc' = "shunting_yard"
          /\ stdout' = stdout
          /\ Len(operator_cache') <= Len(operator_cache)
          /\ \A i \in 1..Len(operator_cache') : operator_cache'[i].operator # "Sep"
          /\ function_cache' =
               [function_cache EXCEPT ![Len(function_cache)].argc = @ + 1]]_vars
  /\ [][/\ stdout' # stdout
        /\ Last(stdout') = <<"shunting_yard", "Separator outside function">>
        => AtOperator("Sep") /\ function_cache = <<>>]_vars

\* inside pow(2,3), after the "," has been counted
C6_Witness ==
  /\ expr = <<F("pow"), O("("), V("2"), O(","), V("3"), O(")")>>
  /\ pc = "shunting_yard"
  /\ Len(infix) = 2
  /\ function_cache = <<[FunctionToken("Pow") EXCEPT !.argc = 2]>>
  /\ operator_cache = <<OperatorToken("Fn")>>

\* shunting_yard has consumed its input with a call still open
EndInOpenCall ==
  /\ pc = "shunting_yard"
  /\ infix = <<>>
  /\ function_cache # <<>>

Visible(w) == SelectSeq(w, LAMBDA m : m.group # 5)

\* the line holds a call with nothing between its parentheses
HasEmptyCall(w) ==
  LET x == Visible(w)
  IN \E i \in 1..Len(x) :
       /\ i + 2 <= Len(x)
       /\ x[i].group = 3
       /\ x[i + 1] = O("(")
       /\ x[i + 2] = O(")")

\* C8 as claimed: a line that holds a call without arguments, of a
\* fixed-arity or of a variadic function, alone or inside a larger
\* expression, does not pass evaluation, and no function handler is invoked
\* with an empty operand vector
C8_ZeroArgumentCalls ==
  /\ HasEmptyCall(expr) => pc # "compile"
  /\ \A i \in 1..Len(calls) : calls[i].type = "Function" => calls[i].values # <<>>

\* the argument count that follows the function token eval is about to process
NextCount == Num(postfix[2].value)

\* C9 as claimed: eval fails with a syntax error on a fixed-arity function
\* token whose argument count exceeds the declared arity or the number of
\* values on the result stack
C9_ArityEnforcement ==
  [][/\ EvalStep
     /\ is_function(Head(postfix))
     /\ function_arity(Head(postfix).function) # -1
     /\ \/ NextCount > function_arity(Head(postfix).function)
        \/ NextCount > Len(result)
     => /\ pc' = "exit"
        /\ exit_code' = 1
        /\ stdout' = Append(stdout, <<"eval", "Syntax error">>)]_vars

\* the position of the "(" that the ")" at position q of x closes
OpenOf(x, q) ==
  CHOOSE o \in 1..(q - 1) :
    x[o] = O("(") /\ Balanced(SubSeq(x, o + 1, q - 1))

\* the number of argument expressions between the "(" at o and the ")" at q:
\* the stretches between the commas that are in no nested group, counting
\* the stretches that hold an operand
ArgumentExpressions(x, o, q) ==
  LET cuts == {o, q} \cup
              {c \in (o + 1)..(q - 1) :
                 x[c] = O(",") /\ Balanced(SubSeq(x, o + 1, c - 1))}
      next(c) == CHOOSE d \in cuts : d > c /\ \A e \in cuts : e > c => d <= e
  IN Cardinality({c \in cuts \ {q} :
                    \E i \in (c + 1)..(next(c) - 1) : x[i].group \in {1, 4}})

\* the sequence of the elements of the set of integers S, ascending
RECURSIVE Ascending(_)
Ascending(S) ==
  IF S = {} THEN <<>>
  ELSE LET m == CHOOSE a \in S : \A b \in S : a <= b
       IN <<m>> \o Ascending(S \ {m})

\* the number of argument expressions of every call of the line, in the
\* order in which the calls are closed
SuppliedArguments(w) ==
  LET x == Visible(w)
      closes == {q \in 1..Len(x) :
                   x[q] = O(")") /\ OpenOf(x, q) > 1 /\ x[OpenOf(x, q) - 1].group = 3}
      qs == Ascending(closes)
  IN [i \in 1..Len(qs) |-> ArgumentExpressions(x, OpenOf(x, qs[i]), qs[i])]

\* the argument counts of a postfix sequence: the token after each function
RECURSIVE EmittedCounts(_)
EmittedCounts(pf) ==
  IF pf = <<>> THEN <<>>
  ELSE IF is_function(Head(pf)) /\ Len(pf) >= 2
  THEN <<Num(pf[2].value)>> \o EmittedCounts(Tail(Tail(pf)))
  ELSE EmittedCounts(Tail(pf))

\* C10 as claimed: in every line the parser accepts, the argument count
\* emitted after each function token is the number of top-level argument
\* expressions of that call, whatever commas a nested group holds and
\* whatever argument slots are empty
C10_ArgumentCounting ==
  Parsed => EmittedCounts(postfix_ll) = SuppliedArguments(expr)

\* eval<double> or eval<llvm::Value*> failed: main returns 1 after fn printed
\* the syntax error
SyntaxError(fn) ==
  /\ pc' = "exit"
  /\ exit_code' = 1
  /\ stdout' = Append(stdout, <<fn, "Syntax error">>)

\* C11: when the postfix sequence is exhausted, eval (in both of its
\* instantiations) succeeds and assigns the top of the result stack to out
\* if the stack holds exactly one value, and fails with the syntax error
\* without assigning out if it holds none or more than one; eval succeeds
\* at no other point, a failing step leaves out alone, and the empty line
\* never passes evaluation
C11_FinalStack ==
  /\ [][pc = "eval" /\ postfix = <<>> =>
          IF Len(result) = 1
          THEN pc' = "compile" /\ out' = Top(result) /\ exit_code' = exit_code
          ELSE SyntaxError("eval") /\ out' = out]_vars
  /\ [][pc = "llir_eval" /\ postfix_ll = <<>> =>
          IF Len(result_ll) = 1
          THEN pc' = "done" /\ out_ll' = Top(result_ll)
          ELSE SyntaxError("compile") /\ out_ll' = out_ll]_vars
  /\ [][pc = "eval" /\ pc' = "compile" => postfix = <<>> /\ Len(result) = 1]_vars
  /\ [][pc = "llir_eval" /\ pc' = "done" => postfix_ll = <<>> /\ Len(result_ll) = 1]_vars
  /\ [][pc = "eval" /\ pc' = "exit" => out' = out]_vars
  /\ [][pc = "llir_eval" /\ pc' = "exit" => out_ll' = out_ll]_vars
  /\ [](expr = <<>> => pc \notin {"compile", "llir_eval", "done"})

\* 1(1) leaves two values on the result stack and is rejected by eval
C11_Witness ==
  /\ expr = <<V("1"), O("("), V("1"), O(")")>>
  /\ pc = "exit"
  /\ exit_code = 1
  /\ result = <<Known(1), Known(1)>>
  /\ out = Unknown
  /\ stdout = <<<<"eval", "Syntax error">>>>

\* f(...f(f(v0, v1), v2)..., vn) for the binary primitive of fn; v0 alone for
\* one operand, 0 for none
RECURSIVE Reduction(_, _)
Reduction(fn, v) ==
  IF v = <<>> THEN Known(0)
  ELSE IF Len(v) = 1 THEN v[1]
  ELSE reduce_fn(fn, Reduction(fn, SubSeq(v, 1, Len(v) - 1)), v[Len(v)])

\* the instructions i.. of e are the calls f(v0, v1), f(%i, v2), ... of the
\* routine of fn, one for each operand of v from the second on
ReductionCalls(e, f, i, fn, v) ==
  /\ Len(e) = i + Len(v) - 2
  /\ \A k \in 2..Len(v) :
       LET c == e[i + k - 2]
       IN /\ c.op = "call"
          /\ f[c.callee].name = ir_math[fn][1]
          /\ c.args = <<IF k = 2 THEN v[1] ELSE Inst(i + k - 3), v[k]>>

\* C12 as claimed: the handler of a variadic function (hypot, max, min), in
\* the interpreter and in the code generator, returns the left-to-right
\* pairwise reduction of its operands by the binary primitive; one operand
\* is returned unchanged without applying the primitive and no operand
\* gives 0; max(1,2,3) evaluates to 3
C12_VariadicReduction ==
  /\ [][/\ EvalStep
        /\ is_function(Head(postfix))
        /\ function_arity(Head(postfix).function) = -1
        /\ calls' # calls
        => Top(result') = Reduction(Head(postfix).function, Last(calls').values)]_vars
  /\ [][/\ LlirStep
        /\ is_function(Head(postfix_ll))
        /\ function_arity(Head(postfix_ll).function) = -1
        /\ calls_ll' # calls_ll
        /\ pc' = "llir_eval"
        => LET v == Last(calls_ll').values
           IN IF v = <<>>
              THEN Top(result_ll') = ConstantFP(Known(0)) /\ entry' = entry
              ELSE IF Len(v) = 1
              THEN Top(result_ll') = v[1] /\ entry' = entry
              ELSE /\ ReductionCalls(entry', functions', Len(entry) + 1,
                                     Head(postfix_ll).function, v)
                   /\ Top(result_ll') = Inst(Len(entry'))
                   /\ SubSeq(entry', 1, Len(entry)) = entry]_vars
  /\ [](expr = <<F("max"), O("("), V("1"), O(","), V("2"), O(","), V("3"), O(")")>>
          /\ pc = "compile" => out = Known(3))

\* the position main moves to when the stage at position p returns true
NextStage(p) ==
  CASE p = "parse_infix" -> "shunting_yard"
    [] p = "shunting_yard" -> "eval"
    [] p = "eval" -> "compile"
    [] p = "compile" -> "llir_eval"
    [] p = "llir_eval" -> "done"
    [] OTHER -> p

\* C13 as claimed: the stages run in the order lexer, parser, interpreter
\* evaluation, code generation; once a stage has failed nothing more runs
\* (the lexer stops at the first invalid character and emits no further
\* token) and the process exits with code 1; exit code 0 is returned only
\* when all four stages succeeded
C13_FailFast ==
  /\ [][pc' \in {pc, NextStage(pc), "exit"}]_vars
  /\ [][pc \notin {"exit", "done"}]_vars
  /\ [][LexStep(6) => pc' = "exit" /\ infix' = infix]_vars
  /\ [](pc = "exit" => exit_code = 1)
  /\ [](exit_code = 0 <=> pc = "done")
  /\ [](pc = "done" => /\ iter > Len(expr)
                       /\ infix = <<>> /\ postfix = <<>> /\ postfix_ll = <<>>
                       /\ Len(result) = 1 /\ Len(result_ll) = 1
                       /\ written)

\* the double that the module main.ll prints when it is run
Printed == operand(out_ll, run(entry, functions, <<>>))

\* C14 as claimed: the code generator lowers every operator and function
\* kind to the instruction or library call that computes what the
\* interpreter's handler computes (ceil to ceil, the bitwise operators
\* through the same 32-bit integer round trip): both backends are handed the
\* same kinds in the same order, and a well-formed generated module prints
\* the value the interpreter printed
C14_CrossBackend ==
  pc = "done" =>
    /\ [k \in 1..Len(calls_ll) |-> <<calls_ll[k].type, calls_ll[k].kind>>]
         = [k \in 1..Len(calls) |-> <<calls[k].type, calls[k].kind>>]
    /\ verified = "ok" /\ IsKnown(out) /\ IsKnown(Printed) => Printed = out

\* the declarations of the module created for the function kind fn
DeclarationsOf(fn) ==
  {i \in 1..Len(functions) :
     functions[i].slot[1] \in {"ir_math", "function_exec"} /\ functions[i].slot[2] = fn}

\* C15 as claimed: during one compilation the external declaration of every
\* function kind is created at most once, however often the function is
\* used and whether it is used by a call or by the power operator
C15_DeclareOnce ==
  \A fn \in FunctionTypes : Cardinality(DeclarationsOf(fn)) <= 1

\* C16 as claimed: main.ll is written only after verifyModule has run on the
\* module and found it well formed; a module that fails verification is not
\* written and compile does not report success for it
C16_VerifyBeforeWrite ==
  /\ written => verified = "ok"
  /\ verified = "broken" => ~written /\ pc # "done"

\* the kind of every token of ts
Kinds(ts) ==
  [i \in 1..Len(ts) |->
     [type |-> ts[i].type, operator |-> ts[i].operator, function |-> ts[i].function]]

\* the lexer on the rendered form of ts
Relexed(ts) == lex(matches(rendered(ts), 1), 1, <<>>)

\* C17 as claimed: lexing the rendered form of any token sequence that the
\* lexer produced succeeds and gives tokens of the same kinds in the same
\* order, unary plus, unary minus and the function-call marker included
C17_RoundTrip ==
  [][pc = "parse_infix" /\ pc' = "shunting_yard" =>
       /\ Relexed(infix).ok
       /\ Kinds(Relexed(infix).infix) = Kinds(infix)]_vars

\* the k values on top of the stack rs, the one pushed earliest first
Operands(rs, k) == [i \in 1..k |-> rs[Len(rs) - k + i]]

\* the stack rs2 is rs with its top k values replaced by one value
Replaced(rs, k, rs2) ==
  /\ Len(rs2) = Len(rs) + 1 - k
  /\ \A i \in 1..(Len(rs) - k) : rs2[i] = rs[i]

\* C18: on an operator token of arity k eval, in both instantiations, fails
\* with the syntax error and calls no handler when fewer than k values are
\* on the result stack; otherwise it pops exactly k values, hands them to
\* the handler with the value pushed earliest at index 0 (a b - computes
\* a - b) and pushes exactly one result, so that the depth changes by 1 - k
C18_OperatorStep ==
  /\ [][EvalStep /\ is_operator(Head(postfix)) =>
          LET op == Head(postfix).operator
              k == arity(op)
          IN IF Len(result) < k
             THEN SyntaxError("eval") /\ calls' = calls /\ result' = result
             ELSE /\ pc' = "eval"
                  /\ calls' = Append(calls, Call("Operator", op, Operands(result, k)))
                  /\ Replaced(result, k, result')
                  /\ op = "Sub" /\ IsKnown(Top(result')) =>
                       Num(Top(result')) = Num(result[Len(result) - 1]) - Num(Top(result))]_vars
  /\ [][LlirStep /\ is_operator(Head(postfix_ll)) =>
          LET op == Head(postfix_ll).operator
              k == arity(op)
          IN IF Len(result_ll) < k
             THEN SyntaxError("compile") /\ calls_ll' = calls_ll /\ result_ll' = result_ll
             ELSE /\ pc' = "llir_eval"
                  /\ calls_ll' = Append(calls_ll, Call("Operator", op, Operands(result_ll, k)))
                  /\ Replaced(result_ll, k, result_ll')
                  /\ op = "Sub" =>
                       /\ Last(entry').op = "fsub"
                       /\ Last(entry').args = <<result_ll[Len(result_ll) - 1], Top(result_ll)>>
                       /\ Top(result_ll') = Inst(Len(entry'))]_vars
  /\ [](expr = Infix5("-", "-") /\ pc = "compile" => out = Known(-4))

\* 1 - 2 - 3: the first subtraction has been evaluated
C18_Witness ==
  /\ expr = Infix5("-", "-")
  /\ pc = "eval"
  /\ calls = <<Call("Operator", "Sub", <<Known(1), Known(2)>>)>>
  /\ result = <<Known(-1)>>

\* the operator token the lexer makes of the unary symbol u
Unary(u) ==
  OperatorToken(IF u = "~" THEN "Not" ELSE operator_as_unary[token_to_operator[u]])

\* C19: a unary operator (unary plus, unary minus, bitwise not) is pushed on
\* the operator stack without popping anything; consecutive unary operators
\* are all kept (- - x becomes x neg neg); a unary operator binds tighter
\* than every binary operator b, ** included: u x b y becomes x u y b and
\* x b u y becomes x y u b
C19_UnaryOperators ==
  /\ [][SyStep /\ is_operator(Head(infix)) /\ arity(Head(infix).operator) = 1 =>
          /\ operator_cache' = Append(operator_cache, Head(infix))
          /\ postfix' = postfix
          /\ pc' = "shunting_yard"]_vars
  /\ [](Len(expr) \in {3, 4} /\ (Rejected \/ Parsed) =>
        \A u \in UnaryKeys :
          /\ expr = <<O(u), O(u), V("1")>> =>
               /\ ~Rejected
               /\ Parsed => postfix_ll = <<Val("1"), Unary(u), Unary(u)>>
          /\ \A b \in BinaryKeys :
               /\ expr = Prefix4(u, b) =>
                    /\ ~Rejected
                    /\ Parsed => postfix_ll = <<Val("1"), Unary(u), Val("2"), Op(b)>>
               /\ expr = Inner4(b, u) =>
                    /\ ~Rejected
                    /\ Parsed => postfix_ll = <<Val("1"), Val("2"), Unary(u), Op(b)>>)
  /\ [](expr = Prefix4("-", "**") /\ pc = "compile" => out = Known(1))

\* - - 1 has been parsed
C19_Witness ==
  /\ expr = <<O("-"), O("-"), V("1")>>
  /\ Parsed
  /\ postfix_ll = <<Val("1"), OperatorToken("Neg"), OperatorToken("Neg")>>

\* C20: whenever shunting_yard returns success its output holds no sentinel
\* ("(" or function-call marker), no ")" and no separator, and every
\* function token in it is directly followed by a value token that holds
\* the argument count of that function token; so the token eval reads after
\* a function token is always there
C20_PostfixWellFormed ==
  /\ [](Parsed =>
        \A i \in 1..Len(postfix_ll) :
          /\ is_operator(postfix_ll[i]) =>
               postfix_ll[i].operator \notin {"Lbr", "Fn", "Rbr", "Sep", "Noop"}
          /\ is_function(postfix_ll[i]) =>
               /\ i < Len(postfix_ll)
               /\ postfix_ll[i + 1] = ValueToken(Known(postfix_ll[i].argc)))
  /\ [][EvalStep /\ is_function(Head(postfix)) =>
          Len(postfix) >= 2 /\ is_value(postfix[2])]_vars
  /\ [][LlirStep /\ is_function(Head(postfix_ll)) =>
          Len(postfix_ll) >= 2 /\ is_value(postfix_ll[2])]_vars

\* pow(2,3) has been parsed
C20_Witness ==
  /\ expr = <<F("pow"), O("("), V("2"), O(","), V("3"), O(")")>>
  /\ Parsed
  /\ postfix_ll = <<Val("2"), Val("3"), [FunctionToken("Pow") EXCEPT !.argc = 2],
                    ValueToken(Known(2))>>

\* the number of function-call markers on the operator stack oc
Markers(oc) == Cardinality({i \in 1..Len(oc) : oc[i].operator = "Fn"})

\* the position, in the line without its whitespace, of the match whose
\* token shunting_yard is about to process
Position == Len(Visible(expr)) - Len(infix) + 1

EnoughOperands(c) ==
  c.type = "Function" /\ function_arity(c.kind) # -1 =>
    Len(c.values) >= function_arity(c.kind)

\* C22 as claimed: whenever eval, in either instantiation, invokes the
\* handler of a fixed-arity function of declared arity k, the operand
\* vector holds at least k elements, also when other values are on the
\* result stack below the operands of the call (1 + pow(2))
C22_HandlerOperands ==
  /\ \A i \in 1..Len(calls) : EnoughOperands(calls[i])
  /\ \A i \in 1..Len(calls_ll) : EnoughOperands(calls_ll[i])

\* the tokens the lexer makes of the line w
Tokens(w) == lex(w, 1, <<>>).infix

\* a binary operator of ts is the last token or stands directly before a
\* ")", or ts ends in a unary operator that follows its operand
MissingOperand(ts) ==
  \/ \E i \in 1..Len(ts) :
       /\ is_operator(ts[i])
       /\ arity(ts[i].operator) = 2 /\ ts[i].operator # "Sep"
       /\ i = Len(ts) \/ ts[i + 1] = OperatorToken("Rbr")
  \/ /\ Len(ts) >= 2
     /\ is_operator(ts[Len(ts)]) /\ arity(ts[Len(ts)].operator) = 1
     /\ is_value(ts[Len(ts) - 1]) \/ ts[Len(ts) - 1] = OperatorToken("Rbr")

\* C23 as claimed: a line in which a binary operator has no right operand
\* or in which a unary operator follows its operand at the end (1 2 +,
\* 2 (3 +), 2 ~) is rejected by the parser or by the evaluator
C23_OnlyInfixAccepted ==
  MissingOperand(Tokens(expr)) => pc \notin {"compile", "llir_eval", "done"}

\* s is an initial segment of t
IsPrefix(s, t) == Len(s) <= Len(t) /\ SubSeq(t, 1, Len(s)) = s

\* the evaluation of the code generator is under way or over
Compiling == pc \in {"compile", "llir_eval"}

====
